---- MODULE Spec2Model ----
(***************************************************************************)
(* Corpus query engine (corpus.h / corpus.cpp / main.cpp).                 *)
(*                                                                         *)
(* Positions are 0-based as in the C++ code; TLA+ sequences are 1-based,   *)
(* so element p of a std::vector v is v[p + 1].                            *)
(***************************************************************************)
EXTENDS Integers, Sequences, FiniteSets, TLC

\* ------------------------------------------------------------------ bounds
MaxTokens == 2      \* token rows read by load_corpus
MaxClauses == 2     \* clauses of a query handed to match2
MaxQueryLits == 2   \* literals of a whole query
MaxElem == 11       \* largest element of a set operand
MaxSmall == 1       \* elements of the smaller operand
MaxShift == 1       \* largest shift of an operand
PlanTokens == 2     \* tokens of the corpus the planner's sets are over
MaxSets == 3        \* sets handed to intersect_with_plan

\* The rows an input file is made of: word, c5, lemma, pos.  Of the tokens
\* with the value "a", word has the first row's, c5 the second row's, lemma
\* both and pos none.
Vocabulary == { <<"a", "b", "a", "b">>, <<"b", "a", "a", "b">> }

\* The value strings of the literals of a query text.
QueryStrings == {"a"}

Attributes == {"word", "c5", "lemma", "pos"}

VARIABLES
    pc,          \* position of the program: "load", "ready", "matched", ...
    corpus,      \* struct Corpus
    in_sentence, \* load_corpus: local flag
    row,         \* load_corpus: kind of the row last read by getline
    query,       \* the Query handed to match2
    matchSet,    \* the MatchSet returned by match_set(corpus, query)
    reduced,     \* match_set(corpus, query): intersect_with_plan's result
    matches,     \* the std::vector<Match> returned by match2
    args,        \* operands of a set operation applied on its own
    result       \* what the operation returned

vars == <<pc, corpus, in_sentence, row, query, matchSet, reduced, matches,
          args, result>>
loadVars == <<corpus, in_sentence, row>>
evalVars == <<query, matchSet, reduced, matches>>
algVars == <<args, result>>

\* ------------------------------------------------------- generic helpers
Max(a, b) == IF a < b THEN b ELSE a
Min(a, b) == IF a < b THEN a ELSE b
Range(s) == { s[i] : i \in DOMAIN s }

\* std::lower_bound over a range sorted by key: number of leading elements
\* whose key is < v (count/step bisection of the library).
RECURSIVE LowerBoundFrom(_, _, _, _)
LowerBoundFrom(keys, v, first, count) ==
    IF count <= 0 THEN first
    ELSE LET step == count \div 2
             it == first + step
         IN  IF keys[it + 1] < v
             THEN LowerBoundFrom(keys, v, it + 1, count - (step + 1))
             ELSE LowerBoundFrom(keys, v, first, step)

lower_bound(keys, v) == LowerBoundFrom(keys, v, 0, Len(keys))

\* std::upper_bound: number of leading elements whose key is <= v.
RECURSIVE UpperBoundFrom(_, _, _, _)
UpperBoundFrom(keys, v, first, count) ==
    IF count <= 0 THEN first
    ELSE LET step == count \div 2
             it == first + step
         IN  IF ~(v < keys[it + 1])
             THEN UpperBoundFrom(keys, v, it + 1, count - (step + 1))
             ELSE UpperBoundFrom(keys, v, first, step)

upper_bound(keys, v) == UpperBoundFrom(keys, v, 0, Len(keys))

\* std::binary_search
binary_search(keys, v) ==
    LET i == lower_bound(keys, v)
    IN  i < Len(keys) /\ ~(v < keys[i + 1])

\* ------------------------------------------------------------ dictionary
EmptyCorpus ==
    [tokens |-> <<>>, sentences |-> <<>>,
     index2string |-> <<>>, string2index |-> <<>>,
     word_index |-> <<>>, c5_index |-> <<>>,
     lemma_index |-> <<>>, pos_index |-> <<>>]

\* insert_and_get_index without the find: every call takes a new index.
insert_and_get_index_no_find(c, str) ==
    LET new_index == Len(c.index2string)
    IN  [corpus |->
            [c EXCEPT !.index2string = Append(@, str),
                      !.string2index =
                          [s \in DOMAIN @ \cup {str} |->
                              IF s = str THEN new_index ELSE @[s]]],
         index |-> new_index]

\* string2index is a std::map: here a function whose domain is the set of
\* strings inserted so far.  Result: the corpus afterwards and the index.
insert_and_get_index(c, str) ==
    IF str \in DOMAIN c.string2index
    THEN [corpus |-> c, index |-> c.string2index[str]]
    ELSE LET new_index == Len(c.index2string)
         IN  [corpus |->
                 [c EXCEPT !.index2string = Append(@, str),
                           !.string2index =
                               [s \in DOMAIN @ \cup {str} |->
                                   IF s = str THEN new_index ELSE @[s]]],
              index |-> new_index]

\* ---------------------------------------------------------------- indices
\* std::stable_sort of positions by key: insertion after the last element
\* whose key is not greater keeps equal keys in their original order.
RECURSIVE StableInsert(_, _, _)
StableInsert(sorted, x, key) ==
    IF sorted = <<>> THEN <<x>>
    ELSE IF key[x + 1] < key[sorted[Len(sorted)] + 1]
         THEN Append(StableInsert(SubSeq(sorted, 1, Len(sorted) - 1), x, key),
                     sorted[Len(sorted)])
         ELSE Append(sorted, x)

RECURSIVE StableSortUpTo(_, _)
StableSortUpTo(n, key) ==
    IF n = 0 THEN <<>>
    ELSE StableInsert(StableSortUpTo(n - 1, key), n - 1, key)

\* build_index with the order reversed (comparator the wrong way round).
build_index_reversed(tokens, attribute) ==
    LET key == [i \in 1..Len(tokens) |-> tokens[i][attribute]]
        sorted == StableSortUpTo(Len(tokens), key)
    IN  [i \in 1..Len(sorted) |-> sorted[Len(sorted) + 1 - i]]

build_index(tokens, attribute) ==
    LET key == [i \in 1..Len(tokens) |-> tokens[i][attribute]]
    IN  StableSortUpTo(Len(tokens), key)

build_indices(c) ==
    [c EXCEPT !.word_index = build_index(c.tokens, "word"),
              !.c5_index = build_index(c.tokens, "c5"),
              !.lemma_index = build_index(c.tokens, "lemma"),
              !.pos_index = build_index(c.tokens, "pos")]

IndexOf(c, attribute) ==
    IF attribute = "word" THEN c.word_index
    ELSE IF attribute = "c5" THEN c.c5_index
    ELSE IF attribute = "lemma" THEN c.lemma_index
    ELSE c.pos_index

\* index_lookup without the upper_bound: the view runs to the end of the
\* index.
index_lookup_to_end(c, attribute, value) ==
    LET index == IndexOf(c, attribute)
        keys == [k \in 1..Len(index) |-> c.tokens[index[k] + 1][attribute]]
        first == lower_bound(keys, value)
    IN  [kind |-> "Index", elems |-> SubSeq(index, first + 1, Len(index)),
         shift |-> 0]

\* The IndexSet of the positions whose attribute has the value: a view of
\* the index between lower_bound and upper_bound, with shift 0.  For an
\* empty range at the end of the index the span's pointer is &*end(), the
\* one-past-the-end pointer of the vector's storage, and its length is 0.
index_lookup(c, attribute, value) ==
    LET index == IndexOf(c, attribute)
        keys == [k \in 1..Len(index) |-> c.tokens[index[k] + 1][attribute]]
        first == lower_bound(keys, value)
        rest == SubSeq(keys, first + 1, Len(keys))
        last == first + upper_bound(rest, value)
    IN  [kind |-> "Index", elems |-> SubSeq(index, first + 1, last), shift |-> 0]

\* -------------------------------------------------------- set algebra
DenseSet(first, last) == [kind |-> "Dense", first |-> first, last |-> last]
IndexSet(elems, shift) == [kind |-> "Index", elems |-> elems, shift |-> shift]
ExplicitSet(elems) == [kind |-> "Explicit", elems |-> elems]
MatchSet(set, complement) == [set |-> set, complement |-> complement]

\* Binary probe: the elements x of A with x - A_shift + B_shift in B, as
\* they stand in A.
binary_intersect_two_sets(A, B, A_shift, B_shift) ==
    ExplicitSet(SelectSeq(A, LAMBDA x : binary_search(B, x - A_shift + B_shift)))

binary_diff_two_sets(A, B, A_shift, B_shift) ==
    ExplicitSet(SelectSeq(A, LAMBDA x : ~binary_search(B, x - A_shift + B_shift)))

\* Linear merge; p and q are the 0-based cursors of the loop.
RECURSIVE IntersectMerge(_, _, _, _, _, _, _)
IntersectMerge(A, B, A_shift, B_shift, p, q, C) ==
    IF p < Len(A) /\ q < Len(B)
    THEN IF A[p + 1] - A_shift < B[q + 1] - B_shift
         THEN IntersectMerge(A, B, A_shift, B_shift, p + 1, q, C)
         ELSE IF B[q + 1] - B_shift < A[p + 1] - A_shift
              THEN IntersectMerge(A, B, A_shift, B_shift, p, q + 1, C)
              ELSE IntersectMerge(A, B, A_shift, B_shift, p + 1, q + 1,
                                  Append(C, A[p + 1] - A_shift))
    ELSE C

intersect_two_sets(A, B, A_shift, B_shift) ==
    ExplicitSet(IntersectMerge(A, B, A_shift, B_shift, 0, 0, <<>>))

\* In diff_two_sets q walks A and p walks B.
RECURSIVE DiffMerge(_, _, _, _, _, _, _)
DiffMerge(A, B, A_shift, B_shift, q, p, C) ==
    IF q < Len(A) /\ p < Len(B)
    THEN IF A[q + 1] - A_shift < B[p + 1] - B_shift
         THEN DiffMerge(A, B, A_shift, B_shift, q + 1, p,
                        Append(C, A[q + 1] - A_shift))
         ELSE IF B[p + 1] - B_shift < A[q + 1] - A_shift
              THEN DiffMerge(A, B, A_shift, B_shift, q, p + 1, C)
              ELSE DiffMerge(A, B, A_shift, B_shift, q + 1, p + 1, C)
    ELSE IF q < Len(A)
         THEN DiffMerge(A, B, A_shift, B_shift, q + 1, p,
                        Append(C, A[q + 1] - A_shift))
         ELSE C

diff_two_sets(A, B, A_shift, B_shift) ==
    ExplicitSet(DiffMerge(A, B, A_shift, B_shift, 0, 0, <<>>))

RECURSIVE DiffDenseWalk(_, _, _, _, _, _)
DiffDenseWalk(A, B, B_shift, p, q, C) ==
    IF p <= A.last /\ q < Len(B)
    THEN IF p < B[q + 1] - B_shift
         THEN DiffDenseWalk(A, B, B_shift, p + 1, q, Append(C, p))
         ELSE IF p > B[q + 1] - B_shift
              THEN DiffDenseWalk(A, B, B_shift, p, q + 1, C)
              ELSE DiffDenseWalk(A, B, B_shift, p + 1, q + 1, C)
    ELSE IF p <= A.last
         THEN DiffDenseWalk(A, B, B_shift, p + 1, q, Append(C, p))
         ELSE C

diff_dense_x(A, B, B_shift) ==
    ExplicitSet(DiffDenseWalk(A, B, B_shift, A.first, 0, <<>>))

diff_x_denseset(A, B, A_shift) ==
    LET shifted == [i \in 1..Len(A) |-> A[i] - A_shift]
    IN  ExplicitSet(SelectSeq(shifted, LAMBDA e : e < B.first \/ e > B.last))

\* ----- same set type
intersection_Explicit_Explicit(A, B) ==
    IF Len(A.elems) * 10 <= Len(B.elems)
    THEN binary_intersect_two_sets(A.elems, B.elems, 0, 0)
    ELSE IF Len(A.elems) > Len(B.elems) * 10
         THEN binary_intersect_two_sets(B.elems, A.elems, 0, 0)
         ELSE intersect_two_sets(A.elems, B.elems, 0, 0)

difference_Explicit_Explicit(A, B) ==
    IF Len(A.elems) >= Len(B.elems) * 10
    THEN binary_diff_two_sets(A.elems, B.elems, 0, 0)
    ELSE diff_two_sets(A.elems, B.elems, 0, 0)

intersection_Index_Index(A, B) ==
    IF Len(A.elems) * 10 <= Len(B.elems)
    THEN binary_intersect_two_sets(A.elems, B.elems, A.shift, B.shift)
    ELSE IF Len(A.elems) > Len(B.elems) * 10
         THEN binary_intersect_two_sets(B.elems, A.elems, B.shift, A.shift)
         ELSE intersect_two_sets(A.elems, B.elems, A.shift, B.shift)

difference_Index_Index(A, B) ==
    IF Len(A.elems) >= Len(B.elems) * 10
    THEN binary_diff_two_sets(A.elems, B.elems, A.shift, B.shift)
    ELSE diff_two_sets(A.elems, B.elems, A.shift, B.shift)

intersection_Dense_Dense(A, B) ==
    DenseSet(Max(A.first, B.first), Min(A.last, B.last))

difference_Dense_Dense(A, B) ==
    IF A.last <= B.first \/ A.first >= B.last THEN A
    ELSE IF A.first < B.first THEN DenseSet(A.first, B.first)
    ELSE DenseSet(0, 0)

\* ----- index and explicit
intersection_Index_Explicit(A, B) ==
    IF Len(A.elems) * 10 <= Len(B.elems)
    THEN binary_intersect_two_sets(A.elems, B.elems, A.shift, 0)
    ELSE IF Len(A.elems) > Len(B.elems) * 10
         THEN binary_intersect_two_sets(B.elems, A.elems, 0, A.shift)
         ELSE intersect_two_sets(A.elems, B.elems, A.shift, 0)

intersection_Explicit_Index(A, B) == intersection_Index_Explicit(B, A)

difference_Index_Explicit(A, B) ==
    IF Len(A.elems) >= Len(B.elems) * 10
    THEN binary_diff_two_sets(A.elems, B.elems, A.shift, 0)
    ELSE diff_two_sets(A.elems, B.elems, A.shift, 0)

difference_Explicit_Index(A, B) ==
    IF Len(A.elems) >= Len(B.elems) * 10
    THEN binary_diff_two_sets(A.elems, B.elems, 0, B.shift)
    ELSE diff_two_sets(A.elems, B.elems, 0, B.shift)

\* ----- dense and explicit: the elements of B up to the first one past A.last
RECURSIVE DensePrefix(_, _, _, _)
DensePrefix(A, elems, k, c) ==
    IF k > Len(elems) THEN c
    ELSE IF elems[k] > A.last THEN c
    ELSE DensePrefix(A, elems, k + 1, Append(c, elems[k]))

intersection_Dense_Explicit(A, B) == ExplicitSet(DensePrefix(A, B.elems, 1, <<>>))

intersection_Explicit_Dense(A, B) == intersection_Dense_Explicit(B, A)

difference_Dense_Explicit(A, B) == diff_dense_x(A, B.elems, 0)

difference_Explicit_Dense(A, B) == diff_x_denseset(A.elems, B, 0)

\* ----- index and dense
intersection_Index_Dense(A, B) ==
    LET shifted == [i \in 1..Len(A.elems) |-> A.elems[i] - A.shift]
    IN  ExplicitSet(SelectSeq(shifted, LAMBDA e : e <= B.last /\ e >= B.first))

intersection_Dense_Index(A, B) == intersection_Index_Dense(B, A)

difference_Dense_Index(A, B) == diff_dense_x(A, B.elems, B.shift)

difference_Index_Dense(A, B) == diff_x_denseset(A.elems, B, A.shift)

\* std::visit over the two variants
VisitIntersection(a, b) ==
    CASE a.kind = "Dense" /\ b.kind = "Dense" -> intersection_Dense_Dense(a, b)
      [] a.kind = "Dense" /\ b.kind = "Index" -> intersection_Dense_Index(a, b)
      [] a.kind = "Dense" /\ b.kind = "Explicit" -> intersection_Dense_Explicit(a, b)
      [] a.kind = "Index" /\ b.kind = "Dense" -> intersection_Index_Dense(a, b)
      [] a.kind = "Index" /\ b.kind = "Index" -> intersection_Index_Index(a, b)
      [] a.kind = "Index" /\ b.kind = "Explicit" -> intersection_Index_Explicit(a, b)
      [] a.kind = "Explicit" /\ b.kind = "Dense" -> intersection_Explicit_Dense(a, b)
      [] a.kind = "Explicit" /\ b.kind = "Index" -> intersection_Explicit_Index(a, b)
      [] a.kind = "Explicit" /\ b.kind = "Explicit" -> intersection_Explicit_Explicit(a, b)

VisitDifference(a, b) ==
    CASE a.kind = "Dense" /\ b.kind = "Dense" -> difference_Dense_Dense(a, b)
      [] a.kind = "Dense" /\ b.kind = "Index" -> difference_Dense_Index(a, b)
      [] a.kind = "Dense" /\ b.kind = "Explicit" -> difference_Dense_Explicit(a, b)
      [] a.kind = "Index" /\ b.kind = "Dense" -> difference_Index_Dense(a, b)
      [] a.kind = "Index" /\ b.kind = "Index" -> difference_Index_Index(a, b)
      [] a.kind = "Index" /\ b.kind = "Explicit" -> difference_Index_Explicit(a, b)
      [] a.kind = "Explicit" /\ b.kind = "Dense" -> difference_Explicit_Dense(a, b)
      [] a.kind = "Explicit" /\ b.kind = "Index" -> difference_Explicit_Index(a, b)
      [] a.kind = "Explicit" /\ b.kind = "Explicit" -> difference_Explicit_Explicit(a, b)

intersection_MatchSet(A, B) ==
    IF A.complement /\ B.complement
    THEN MatchSet(VisitIntersection(A.set, B.set), TRUE)
    ELSE IF A.complement
         THEN MatchSet(VisitDifference(B.set, A.set), FALSE)
         ELSE IF B.complement
              THEN MatchSet(VisitDifference(A.set, B.set), FALSE)
              ELSE MatchSet(VisitIntersection(A.set, B.set), FALSE)

\* --------------------------------------------------------------- planner
find_set_size(set) ==
    IF set.set.kind = "Dense" THEN set.set.last - set.set.first + 1
    ELSE Len(set.set.elems)

\* The first loop of intersect_with_plan: the DenseSets collapsed in input
\* order into dense_set, the other sets kept in input order.
RECURSIVE CollapseDense(_, _, _, _)
CollapseDense(sets, k, dense_found, dense_set) ==
    IF k > Len(sets) THEN [dense_found |-> dense_found, dense_set |-> dense_set]
    ELSE IF sets[k].set.kind = "Dense"
         THEN CollapseDense(sets, k + 1, TRUE,
                            IF ~dense_found THEN sets[k]
                            ELSE intersection_MatchSet(dense_set, sets[k]))
         ELSE CollapseDense(sets, k + 1, dense_found, dense_set)

\* The sets of the list that are no DenseSet, in input order.
OtherSets(sets) == SelectSeq(sets, LAMBDA m : m.set.kind # "Dense")

SizesOf(otherSets) == [i \in 1..Len(otherSets) |-> find_set_size(otherSets[i])]

\* std::sort by find_set_size: the order of sets of equal size is
\* unspecified, so every rearrangement g of the positions that leaves the
\* sizes non-decreasing is an outcome.  The sort sees the sets only through
\* the comparisons of their sizes.
SortOrders(otherSets) ==
    LET n == Len(otherSets)
    IN  { g \in Permutations(1..n) :
            \A i \in 1..n, j \in 1..n :
                i < j => ~(find_set_size(otherSets[g[j]])
                             < find_set_size(otherSets[g[i]])) }

SortBySize(otherSets, g) == [i \in 1..Len(otherSets) |-> otherSets[g[i]]]

RECURSIVE ReduceSorted(_, _, _)
ReduceSorted(otherSets, i, returnSet) ==
    IF i > Len(otherSets) THEN returnSet
    ELSE ReduceSorted(otherSets, i + 1,
                      intersection_MatchSet(returnSet, otherSets[i]))

\* intersect_with_plan on a non-empty list of sets, when std::sort
\* rearranges the other sets by g.
PlanSortedBy(sets, g) ==
    LET dense == CollapseDense(sets, 1, FALSE, <<>>)
        otherSets == SortBySize(OtherSets(sets), g)
    IN  IF otherSets = <<>> THEN dense.dense_set
        ELSE LET returnSet == ReduceSorted(otherSets, 2, otherSets[1])
             IN  IF dense.dense_found
                 THEN intersection_MatchSet(returnSet, dense.dense_set)
                 ELSE returnSet

\* The results intersect_with_plan can return for a non-empty list of sets.
intersect_with_plan(sets) ==
    { PlanSortedBy(sets, g) : g \in SortOrders(OtherSets(sets)) }

\* ------------------------------------------------------------- evaluator
\* match_set for a literal that never sets the complement bit.
match_set_literal_equality(c, literal, shift) ==
    MatchSet([index_lookup(c, literal.attribute, literal.value)
                 EXCEPT !.shift = shift], FALSE)

match_set_literal(c, literal, shift) ==
    LET index_set == [index_lookup(c, literal.attribute, literal.value)
                         EXCEPT !.shift = shift]
    IN  MatchSet(index_set, ~literal.is_equality)

match_set_clause(c, clause, shift) ==
    IF clause = <<>>
    THEN {MatchSet(DenseSet(0, Len(c.tokens) - 1), FALSE)}
    ELSE intersect_with_plan(
             [i \in 1..Len(clause) |-> match_set_literal(c, clause[i], shift)])

\* The lists of per-clause sets: clause j (0-based) is evaluated at shift j.
RECURSIVE ClauseSets(_, _, _)
ClauseSets(c, q, n) ==
    IF n = 0 THEN {<<>>}
    ELSE { Append(sets, m) : sets \in ClauseSets(c, q, n - 1),
                             m \in match_set_clause(c, q[n], n - 1) }

\* A value-initialised MatchSet ("return {}"): the first alternative of the
\* variant, DenseSet{0, 0}, and complement false.
ValueInitMatchSet == MatchSet(DenseSet(0, 0), FALSE)

\* match_set for a query that returns the planner's result as it is.
match_set_query_as_planned(c, q) ==
    IF q = <<>>
    THEN {[reduced |-> ValueInitMatchSet, set |-> ValueInitMatchSet]}
    ELSE { [reduced |-> set, set |-> set]
           : set \in UNION { intersect_with_plan(sets) :
                               sets \in ClauseSets(c, q, Len(q)) } }

\* The outcomes of match_set(corpus, query): the planner's result (reduced)
\* and the set returned after the complement is handled.
match_set_query(c, q) ==
    IF q = <<>>
    THEN {[reduced |-> ValueInitMatchSet, set |-> ValueInitMatchSet]}
    ELSE { [reduced |-> set,
            set |-> IF set.complement
                    THEN intersection_MatchSet(
                             MatchSet(DenseSet(0, Len(c.tokens) - 1), FALSE), set)
                    ELSE set]
           : set \in UNION { intersect_with_plan(sets) :
                               sets \in ClauseSets(c, q, Len(q)) } }

SentenceOf(c, i) == upper_bound(c.sentences, i) - 1

Match(sentence, p, len) == [sentence |-> sentence, pos |-> p, len |-> len]

\* The loop of match2 over the positions of the final set.
match2(c, q, ms) ==
    IF ms.set.kind = "Dense"
    THEN LET n == Max(0, ms.set.last - ms.set.first + 1)
         IN  [k \in 1..n |->
                 LET i == ms.set.first + k - 1
                 IN  Match(SentenceOf(c, i), i, 1)]
    ELSE IF ms.set.kind = "Index"
    THEN [k \in 1..Len(ms.set.elems) |->
             Match(SentenceOf(c, ms.set.elems[k]), ms.set.elems[k], 1)]
    ELSE [k \in 1..Len(ms.set.elems) |->
             Match(SentenceOf(c, ms.set.elems[k]), ms.set.elems[k], Len(q))]

\* ---------------------------------------------------------------- queries
\* The queries parse_query can build over the loaded dictionary: the value
\* of a literal is the index string2index has for its string (a string that
\* is not in the dictionary makes parse_clause throw).
Literals(c) ==
    { [attribute |-> a, value |-> c.string2index[str], is_equality |-> e] :
        a \in Attributes,
        str \in QueryStrings \cap DOMAIN c.string2index,
        e \in BOOLEAN }

ClausesUpTo(c, n) == UNION { [1..k -> Literals(c)] : k \in 0..n }

RECURSIVE QueriesUpTo(_, _, _)
QueriesUpTo(c, clauses, lits) ==
    IF clauses = 0 THEN {<<>>}
    ELSE {<<>>} \cup
         UNION { { <<cl>> \o rest :
                     rest \in QueriesUpTo(c, clauses - 1, lits - Len(cl)) } :
                 cl \in ClausesUpTo(c, lits) }

Queries(c) == QueriesUpTo(c, MaxClauses, MaxQueryLits)

\* ------------------------------------------------------------ load_corpus
\* One token row: four insertions in the dictionary, a new sentence entry
\* when no sentence is open, and the token.
LoadTokenRow(c, r, open) ==
    LET w == insert_and_get_index(c, r[1])
        t == insert_and_get_index(w.corpus, r[2])
        l == insert_and_get_index(t.corpus, r[3])
        p == insert_and_get_index(l.corpus, r[4])
        token == [word |-> w.index, c5 |-> t.index,
                  lemma |-> l.index, pos |-> p.index]
        token_index == Len(c.tokens)
    IN  [p.corpus EXCEPT
            !.sentences = IF open THEN @ ELSE Append(@, token_index),
            !.tokens = Append(@, token)]

NoQuery ==
    /\ query = <<>>
    /\ matchSet = <<>>
    /\ reduced = <<>>
    /\ matches = <<>>

NoCorpus ==
    /\ corpus = EmptyCorpus
    /\ in_sentence = FALSE
    /\ row = "none"

\* main() before load_corpus has read the header row.
Init ==
    /\ pc = "load"
    /\ corpus = EmptyCorpus
    /\ in_sentence = FALSE
    /\ row = "header"
    /\ NoQuery
    /\ args = <<>>
    /\ result = <<>>

ReadTokenRow ==
    /\ pc = "load"
    /\ Len(corpus.tokens) < MaxTokens
    /\ \E r \in Vocabulary :
          corpus' = LoadTokenRow(corpus, r, in_sentence)
    /\ in_sentence' = TRUE
    /\ row' = "token"
    /\ UNCHANGED <<pc, evalVars, algVars>>

ReadBlankRow ==
    /\ pc = "load"
    /\ in_sentence' = FALSE
    /\ row' = "blank"
    /\ UNCHANGED <<pc, corpus, evalVars, algVars>>

ReadCommentRow ==
    /\ pc = "load"
    /\ row' = "comment"
    /\ UNCHANGED <<pc, corpus, in_sentence, evalVars, algVars>>

\* End of the file.  When the file ends in a newline the failing getline
\* clears row; when it does not, row keeps the last row read.  A non-empty
\* row makes load_corpus push the token count as one more sentence entry.
EndOfFile ==
    /\ pc = "load"
    /\ \E newline \in BOOLEAN :
          LET row_empty == newline \/ row = "blank"
              c == IF row_empty THEN corpus
                   ELSE [corpus EXCEPT
                            !.sentences = Append(@, Len(corpus.tokens))]
          IN  corpus' = build_indices(c)
    /\ pc' = "ready"
    /\ in_sentence' = FALSE   \* the locals end with the call
    /\ row' = "none"
    /\ UNCHANGED <<evalVars, algVars>>

\* match2(corpus, query) for one query over the loaded corpus.
Match2 ==
    /\ pc = "ready"
    /\ \E q \in Queries(corpus) :
          \E out \in match_set_query(corpus, q) :
              /\ query' = q
              /\ reduced' = out.reduced
              /\ matchSet' = out.set
              /\ matches' = match2(corpus, q, out.set)
    /\ pc' = "matched"
    /\ UNCHANGED <<loadVars, algVars>>

Next ==
    \/ Match2
    \/ ReadTokenRow
    \/ ReadBlankRow
    \/ ReadCommentRow
    \/ EndOfFile

Spec == Init /\ [][Next]_vars

\* ======================================================= match2: claims
Done == pc = "matched"
T == Len(corpus.tokens)
S == corpus.sentences
Starts(ms) == { ms[i].pos : i \in DOMAIN ms }

\* The sentence directory of the data model: S[0] = 0 < S[1] < ... < T.
ValidDirectory ==
    /\ T > 0 => Len(S) > 0
    /\ Len(S) > 0 => S[1] = 0
    /\ \A k \in 1..Len(S) : S[k] < T
    /\ \A k \in 1..(Len(S) - 1) : S[k] < S[k + 1]

\* One past the last position of sentence k (0-based).
SentenceEnd(k) == IF k + 1 < Len(S) THEN S[k + 2] ELSE T

\* C1: with a valid sentence directory and a non-empty query, every match
\* (k, p, L) returned by match2 has S[k] <= p and p + L - 1 inside sentence
\* k: no match runs past the end of the sentence it starts in.
C1_NoCrossSentenceMatch ==
    (Done /\ ValidDirectory /\ query # <<>>) =>
        \A i \in DOMAIN matches :
            LET m == matches[i]
            IN  /\ m.sentence \in 0..(Len(S) - 1)
                /\ S[m.sentence + 1] <= m.pos
                /\ m.pos + m.len - 1 < SentenceEnd(m.sentence)

\* C2: every match record returned by match2 has len equal to the number
\* of clauses of the query, whichever representation the final set has.
\* (Stated for the queries with at least one clause; the empty query is
\* C5's.)
C2_LenIsQueryLength ==
    (Done /\ query # <<>>) =>
        \A i \in DOMAIN matches : matches[i].len = Len(query)

\* C3: every match record has start >= 0, sentence index >= 0 and
\* start + length <= T.  (Stated for the queries with at least one clause.)
C3_MatchInsideCorpus ==
    (Done /\ query # <<>>) =>
        \A i \in DOMAIN matches :
            /\ matches[i].pos >= 0
            /\ matches[i].sentence >= 0
            /\ matches[i].pos + matches[i].len <= T

C5_EmptyQueryEmptyResult ==
    (Done /\ query = <<>>) => matches = <<>>

\* The positions a set representation stands for, in its shifted coordinates.
Positions(set) ==
    IF set.kind = "Dense" THEN set.first..set.last
    ELSE IF set.kind = "Index" THEN { set.elems[i] - set.shift : i \in DOMAIN set.elems }
    ELSE Range(set.elems)

\* C6: the MatchSet returned by match_set(corpus, query) has its complement
\* bit cleared, and when the planner's result had the bit set, the returned
\* set is that result taken out of the universe [0, T-1].
C6_NoComplementReturned ==
    Done =>
        /\ matchSet.complement = FALSE
        /\ (query # <<>> /\ reduced.complement) =>
               Positions(matchSet.set) = (0..(T - 1)) \ Positions(reduced.set)

\* C6 witness: the planner reduced two sets to one with the complement bit,
\* and the universe minus that set is neither empty nor everything.
C6_Witness ==
    /\ Done
    /\ query # <<>>
    /\ reduced.complement
    /\ reduced.set.kind = "Explicit"
    /\ matches # <<>>
    /\ Len(matches) < T

\* The clause with the polarity of every literal flipped.
Negated(clause) ==
    [i \in DOMAIN clause |-> [clause[i] EXCEPT !.is_equality = ~@]]

\* The lists match2 can return for a query.
Match2Outcomes(c, q) == { match2(c, q, out.set) : out \in match_set_query(c, q) }

\* The matches of [K] and of [K'] split the positions 0..T-1 in two.
PartitionedBy(K) ==
    \A other \in Match2Outcomes(corpus, <<Negated(K)>>) :
        /\ Starts(matches) \cap Starts(other) = {}
        /\ Starts(matches) \cup Starts(other) = 0..(T - 1)

SamePolarity(K) == \A i \in DOMAIN K : K[i].is_equality = K[1].is_equality

\* C7 as claimed: for any clause K (with a literal to flip) and its negated
\* form K', the positions matched by [K] and by [K'] are disjoint and their
\* union is 0..T-1.
C7_ComplementLaw ==
    (Done /\ Len(query) = 1 /\ query[1] # <<>>) => PartitionedBy(query[1])

\* C7 amended: the complement law holds for every non-empty clause whose
\* literals all have the same polarity, a one-literal clause among them.
C7_ComplementLawSamePolarity ==
    (Done /\ Len(query) = 1 /\ query[1] # <<>> /\ SamePolarity(query[1])) =>
        PartitionedBy(query[1])

\* C7 witness: a two-literal clause of one polarity that matches some
\* positions and not others.
C7_Witness ==
    /\ Done
    /\ Len(query) = 1
    /\ Len(query[1]) = 2
    /\ SamePolarity(query[1])
    /\ matches # <<>>
    /\ Len(matches) < T

\* =========================================== set operations on their own
RECURSIVE AscendingSeq(_)
AscendingSeq(X) ==
    IF X = {} THEN <<>>
    ELSE LET m == CHOOSE x \in X : \A y \in X : y <= x
         IN  Append(AscendingSeq(X \ {m}), m)

\* Two sorted operands, the second one small, each with its shift.
InitAlg ==
    /\ pc = "alg"
    /\ args \in [A : { AscendingSeq(X) : X \in SUBSET (0..MaxElem) },
                 B : { AscendingSeq(Y) :
                         Y \in { Z \in SUBSET (0..MaxElem) : Cardinality(Z) <= MaxSmall } },
                 A_shift : 0..MaxShift,
                 B_shift : 0..MaxShift]
    /\ result = <<>>
    /\ NoCorpus
    /\ NoQuery

\* intersection(IndexSet, IndexSet): the size rule chooses the algorithm.
IntersectIndexSets ==
    /\ pc = "alg"
    /\ result' = [op |-> "intersection",
                  out |-> intersection_Index_Index(
                              IndexSet(args.A, args.A_shift),
                              IndexSet(args.B, args.B_shift))]
    /\ pc' = "applied"
    /\ UNCHANGED <<loadVars, evalVars, args>>

\* The linear merge and the binary probe on the same operands and shifts.
IntersectBothWays ==
    /\ pc = "alg"
    /\ result' = [op |-> "intersect",
                  merge |-> intersect_two_sets(
                                args.A, args.B, args.A_shift, args.B_shift),
                  binary |-> binary_intersect_two_sets(
                                 args.A, args.B, args.A_shift, args.B_shift)]
    /\ pc' = "applied"
    /\ UNCHANGED <<loadVars, evalVars, args>>

DiffBothWays ==
    /\ pc = "alg"
    /\ result' = [op |-> "diff",
                  merge |-> diff_two_sets(
                                args.A, args.B, args.A_shift, args.B_shift),
                  binary |-> binary_diff_two_sets(
                                 args.A, args.B, args.A_shift, args.B_shift)]
    /\ pc' = "applied"
    /\ UNCHANGED <<loadVars, evalVars, args>>

NextAlg ==
    \/ IntersectIndexSets
    \/ IntersectBothWays
    \/ DiffBothWays

SpecAlg == InitAlg /\ [][NextAlg]_vars

\* C8: for sorted X (shift 0) and Y (shift d), intersection(X, Y) is
\* exactly the x of X with x + d in Y, in X's coordinates, whichever
\* algorithm the size rule selects.
C8_ShiftHomomorphism ==
    (pc = "applied" /\ result.op = "intersection" /\ args.A_shift = 0) =>
        result.out =
            ExplicitSet(SelectSeq(args.A,
                LAMBDA x : x + args.B_shift \in Range(args.B)))

\* C9: on the same operands and the same shifts the linear merge and the
\* binary probe return identical intersections and identical differences.
C9_AlgorithmEquivalence ==
    (pc = "applied" /\ result.op \in {"intersect", "diff"}) =>
        result.merge = result.binary

\* ================================================= the planner on its own
\* The MatchSets the evaluator hands to the planner over a corpus of
\* PlanTokens tokens: per-literal IndexSets, ExplicitSets of reduced
\* clauses, and the DenseSet of an empty clause.
PlanSets ==
    LET sorted == { AscendingSeq(X) : X \in SUBSET (0..(PlanTokens - 1)) }
    IN  { MatchSet(IndexSet(e, sh), cb) :
            e \in sorted, sh \in 0..MaxShift, cb \in BOOLEAN }
        \cup { MatchSet(ExplicitSet(e), cb) : e \in sorted, cb \in BOOLEAN }
        \cup { MatchSet(DenseSet(0, PlanTokens - 1), FALSE) }

InitPlan ==
    /\ pc = "plan"
    /\ args \in UNION { [1..n -> PlanSets] : n \in 1..MaxSets }
    /\ result = <<>>
    /\ NoCorpus
    /\ NoQuery

\* intersect_with_plan on the list and on a permutation of it.  The two
\* calls run the same std::sort: when it meets the same sizes in the same
\* places it makes the same comparisons and the same rearrangement.
PlanBothOrders ==
    /\ pc = "plan"
    /\ \E f \in Permutations(1..Len(args)) :
          LET permuted == [i \in 1..Len(args) |-> args[f[i]]]
          IN  \E g \in SortOrders(OtherSets(args)) :
              \E h \in SortOrders(OtherSets(permuted)) :
                  /\ SizesOf(OtherSets(args)) = SizesOf(OtherSets(permuted))
                         => h = g
                  /\ result' = [permuted |-> permuted,
                                out |-> PlanSortedBy(args, g),
                                permuted_out |-> PlanSortedBy(permuted, h)]
    /\ pc' = "planned"
    /\ UNCHANGED <<loadVars, evalVars, args>>

NextPlan == PlanBothOrders

SpecPlan == InitPlan /\ [][NextPlan]_vars

\* The logical set of a MatchSet over a corpus of n tokens.
Denotes(m, n) ==
    IF m.complement THEN (0..(n - 1)) \ Positions(m.set) ELSE Positions(m.set)

\* C10: the logical set denoted by intersect_with_plan's result is the
\* same for every permutation of the input list.
C10_PlannerOrderIndependent ==
    pc = "planned" =>
        Denotes(result.out, PlanTokens) = Denotes(result.permuted_out, PlanTokens)

\* =============================================== the dictionary on its own
MaxInserts == 4     \* calls of insert_and_get_index

\* The strings handed to insert_and_get_index.
DictStrings == {"a", "b", "c"}

\* A new Corpus; args keeps the strings of the calls made so far and the
\* corpus as it was before the last call, result the indices returned.
InitDict ==
    /\ pc = "dict"
    /\ NoCorpus
    /\ NoQuery
    /\ args = [calls |-> <<>>, before |-> EmptyCorpus]
    /\ result = <<>>

InsertAndGetIndex ==
    /\ pc = "dict"
    /\ Len(args.calls) < MaxInserts
    /\ \E str \in DictStrings :
          LET r == insert_and_get_index(corpus, str)
          IN  /\ corpus' = r.corpus
              /\ args' = [calls |-> Append(args.calls, str), before |-> corpus]
              /\ result' = Append(result, r.index)
    /\ UNCHANGED <<pc, in_sentence, row, evalVars>>

NextDict == InsertAndGetIndex

SpecDict == InitDict /\ [][NextDict]_vars

\* The distinct strings of a list of calls, in the order of their first call.
RECURSIVE FirstInsertions(_)
FirstInsertions(calls) ==
    IF calls = <<>> THEN <<>>
    ELSE LET front == FirstInsertions(SubSeq(calls, 1, Len(calls) - 1))
             str == calls[Len(calls)]
         IN  IF str \in Range(front) THEN front ELSE Append(front, str)

\* C11: after any sequence of insert_and_get_index calls the identifiers
\* are 0..N-1 for the N distinct strings in first-insertion order,
\* index2string[insert_and_get_index(s)] = s, two calls return the same
\* identifier iff their strings are equal, and a call with a string that
\* was already there returns its identifier and changes neither map.
C11_DictionaryBijection ==
    pc = "dict" =>
        LET calls == args.calls
            N == Cardinality(Range(calls))
        IN  /\ corpus.index2string = FirstInsertions(calls)
            /\ Len(corpus.index2string) = N
            /\ DOMAIN corpus.string2index = Range(calls)
            /\ { corpus.string2index[s] : s \in Range(calls) } = 0..(N - 1)
            /\ \A i \in DOMAIN calls :
                  /\ result[i] = corpus.string2index[calls[i]]
                  /\ corpus.index2string[result[i] + 1] = calls[i]
            /\ \A i \in DOMAIN calls : \A j \in DOMAIN calls :
                  (result[i] = result[j]) <=> (calls[i] = calls[j])
            /\ (calls # <<>>
                  /\ calls[Len(calls)] \in DOMAIN args.before.string2index) =>
                  /\ corpus = args.before
                  /\ result[Len(calls)]
                        = args.before.string2index[calls[Len(calls)]]

\* C11 witness: three distinct strings inserted and the first one inserted
\* again.
C11_Witness ==
    /\ pc = "dict"
    /\ Len(args.calls) = 4
    /\ Cardinality(Range(args.calls)) = 3
    /\ args.calls[4] = args.calls[1]
    /\ result[4] = 0

\* ================================================ the indices on their own
MaxIndexTokens == 3     \* token rows of the corpus the indices are built on

\* The rows of the input file: word and lemma alike, c5 and pos alike.
IndexRows == { <<w, t, w, t>> : w \in DictStrings, t \in DictStrings }

\* The while loop of load_corpus over token rows of one sentence.
RECURSIVE LoadRows(_)
LoadRows(rows) ==
    IF rows = <<>> THEN EmptyCorpus
    ELSE LoadTokenRow(LoadRows(SubSeq(rows, 1, Len(rows) - 1)),
                      rows[Len(rows)], Len(rows) > 1)

\* The corpus load_corpus returns for a file of token rows: the indices are
\* built.
InitIndex ==
    /\ pc = "index"
    /\ corpus \in { build_indices(LoadRows(rows)) :
                      rows \in UNION { [1..n -> IndexRows] :
                                         n \in 0..MaxIndexTokens } }
    /\ in_sentence = FALSE
    /\ row = "none"
    /\ NoQuery
    /\ args = <<>>
    /\ result = <<>>

\* index_lookup for an attribute and a value: an identifier of the
\* dictionary or the first integer that is none.
IndexLookup ==
    /\ pc = "index"
    /\ \E attribute \in Attributes :
          \E value \in 0..Len(corpus.index2string) :
              /\ args' = [attribute |-> attribute, value |-> value]
              /\ result' = index_lookup(corpus, attribute, value)
    /\ pc' = "looked up"
    /\ UNCHANGED <<loadVars, evalVars>>

NextIndex == IndexLookup

SpecIndex == InitIndex /\ [][NextIndex]_vars

\* The positions whose token has the value for the attribute.
PositionsWith(attribute, value) ==
    { p \in 0..(Len(corpus.tokens) - 1) :
        corpus.tokens[p + 1][attribute] = value }

\* C12: on the indices built by build_indices, index_lookup returns a view
\* with shift 0 whose elements are exactly the positions p whose token has
\* the value for the attribute, each once and in ascending order, and so an
\* empty view when no token has the value.
C12_LookupIsPostingList ==
    pc = "looked up" =>
        result = IndexSet(AscendingSeq(PositionsWith(args.attribute, args.value)), 0)

\* C12 witness: the looked-up value is at two positions that are not next
\* to each other, with a token of a greater value in the corpus.
C12_Witness ==
    /\ pc = "looked up"
    /\ Len(result.elems) = 2
    /\ result.elems[2] > result.elems[1] + 1
    /\ \E p \in 1..Len(corpus.tokens) :
          corpus.tokens[p][args.attribute] > args.value

\* ================================================== load_corpus: claims
\* C13: for every well-formed input file, with or without a trailing
\* newline, the sentence directory load_corpus returns is strictly
\* ascending, starts at 0 and has every entry less than the token count T:
\* no entry denotes an empty sentence.
C13_SentenceDirectoryValid ==
    pc = "ready" =>
        /\ Len(corpus.sentences) > 0 => corpus.sentences[1] = 0
        /\ \A k \in 1..Len(corpus.sentences) :
              corpus.sentences[k] < Len(corpus.tokens)
        /\ \A k \in 1..(Len(corpus.sentences) - 1) :
              corpus.sentences[k] < corpus.sentences[k + 1]
        /\ Len(corpus.tokens) > 0 => Len(corpus.sentences) > 0

\* ================================================================ parsing
\* A text is the sequence of its characters.  A call that throws returns
\* the exception's class in thrown and its message in what.

\* The loop of split_clauses from character i on.
RECURSIVE SplitScan(_, _, _, _, _)
SplitScan(text, i, in_clause, sub_clause, clauses) ==
    IF i > Len(text)
    THEN [thrown |-> "none", what |-> "", in_clause |-> in_clause,
          clauses |-> clauses]
    ELSE IF text[i] = "["
    THEN IF in_clause
         THEN [thrown |-> "invalid_argument",
               what |-> "Nested or misplaced opening bracket '[' detected",
               in_clause |-> in_clause, clauses |-> clauses]
         ELSE SplitScan(text, i + 1, TRUE, <<>>, clauses)
    ELSE IF text[i] = "]"
    THEN IF in_clause
         THEN SplitScan(text, i + 1, FALSE, sub_clause,
                        Append(clauses, sub_clause))
         ELSE [thrown |-> "invalid_argument",
               what |-> "Mismatched or empty clause: ']' without matching '['",
               in_clause |-> in_clause, clauses |-> clauses]
    ELSE IF in_clause
    THEN SplitScan(text, i + 1, in_clause, Append(sub_clause, text[i]), clauses)
    ELSE SplitScan(text, i + 1, in_clause, sub_clause, clauses)

\* split_clauses without the check for a clause left open at the end.
split_clauses_unchecked_end(text) ==
    LET s == SplitScan(text, 1, FALSE, <<>>, <<>>)
    IN  IF s.thrown # "none"
        THEN [thrown |-> s.thrown, what |-> s.what, clauses |-> <<>>]
        ELSE [thrown |-> "none", what |-> "", clauses |-> s.clauses]

split_clauses(text) ==
    LET s == SplitScan(text, 1, FALSE, <<>>, <<>>)
    IN  IF s.thrown # "none"
        THEN [thrown |-> s.thrown, what |-> s.what, clauses |-> <<>>]
        ELSE IF s.in_clause
        THEN [thrown |-> "invalid_argument",
              what |-> "Missing closing bracket for a clause",
              clauses |-> <<>>]
        ELSE [thrown |-> "none", what |-> "", clauses |-> s.clauses]

\* ============================================= split_clauses on its own
MaxTextLen == 5     \* characters of a text handed to split_clauses

SplitChars == {"[", "]", "a", " "}

InitSplit ==
    /\ pc = "text"
    /\ args \in UNION { [1..n -> SplitChars] : n \in 0..MaxTextLen }
    /\ result = <<>>
    /\ NoCorpus
    /\ NoQuery

SplitClauses ==
    /\ pc = "text"
    /\ result' = split_clauses(args)
    /\ pc' = "split"
    /\ UNCHANGED <<loadVars, evalVars, args>>

NextSplit == SplitClauses

SpecSplit == InitSplit /\ [][NextSplit]_vars

Brackets == {"[", "]"}

\* Character i of the text is inside a clause: the last bracket before it
\* is an opening one.
InsideClause(text, i) ==
    \E j \in 1..(i - 1) :
        /\ text[j] = "["
        /\ \A k \in (j + 1)..(i - 1) : text[k] \notin Brackets

\* A '[' inside a clause, a ']' outside a clause, or a clause left open.
BracketError(text) ==
    \/ \E i \in 1..Len(text) : text[i] = "[" /\ InsideClause(text, i)
    \/ \E i \in 1..Len(text) : text[i] = "]" /\ ~InsideClause(text, i)
    \/ InsideClause(text, Len(text) + 1)

\* The positions of the brackets of the text, ascending.
BracketPositions(text) ==
    SelectSeq([i \in 1..Len(text) |-> i], LAMBDA i : text[i] \in Brackets)

\* What is between the brackets of each pair, from left to right.
PairContents(text) ==
    LET bp == BracketPositions(text)
    IN  [k \in 1..(Len(bp) \div 2) |->
            SubSeq(text, bp[2 * k - 1] + 1, bp[2 * k] - 1)]

RECURSIVE Spell(_)
Spell(chars) ==
    IF chars = <<>> THEN ""
    ELSE Spell(SubSeq(chars, 1, Len(chars) - 1)) \o chars[Len(chars)]

\* getline(stream, literal, ' ') until it fails: the pieces between the
\* spaces; after the last space an empty rest is no piece.
RECURSIVE SplitBySpace(_, _, _, _)
SplitBySpace(text, i, piece, pieces) ==
    IF i > Len(text)
    THEN IF piece = <<>> THEN pieces ELSE Append(pieces, piece)
    ELSE IF text[i] = " "
         THEN SplitBySpace(text, i + 1, <<>>, Append(pieces, piece))
         ELSE SplitBySpace(text, i + 1, Append(piece, text[i]), pieces)

\* std::string::find: the first place (1-based) where op stands in the
\* literal, 0 for npos.
Find(literal, op) ==
    LET places == { k \in 1..(Len(literal) - Len(op) + 1) :
                      SubSeq(literal, k, k + Len(op) - 1) = op }
    IN  IF places = {} THEN 0
        ELSE CHOOSE k \in places : \A other \in places : k <= other

Throw(class, what) == [thrown |-> class, what |-> what]

\* The lambda process_literal with trim_and_validate_lit, and the check of
\* the attribute that follows it.
ProcessLiteral(c, literal, pos, op) ==
    LET attribute == Spell(SubSeq(literal, 1, pos - 1))
        value == SubSeq(literal, pos + Len(op), Len(literal))
    IN  IF ~(Len(value) > 2 /\ value[1] = "\"" /\ value[Len(value)] = "\"")
        THEN Throw("invalid_argument",
                   "The value is missing one or more quotes: '"
                       \o Spell(value) \o "'")
        ELSE LET trimmed == Spell(SubSeq(value, 2, Len(value) - 1))
             IN  IF trimmed \notin DOMAIN c.string2index
                 THEN Throw("logic_error",
                            "Error: " \o trimmed \o " does not exist in corpus")
                 ELSE IF attribute \notin Attributes
                 THEN Throw("invalid_argument", "attribute not recognized")
                 ELSE [thrown |-> "none", what |-> "",
                       literal |-> [attribute |-> attribute,
                                    value |-> c.string2index[trimmed],
                                    is_equality |-> (op = <<"=">>)]]

\* The body of the while loop of parse_clause for one literal.
ParseLiteral(c, literal) ==
    IF Find(literal, <<"!", "=">>) # 0
    THEN ProcessLiteral(c, literal, Find(literal, <<"!", "=">>), <<"!", "=">>)
    ELSE IF Find(literal, <<"=">>) # 0
    THEN ProcessLiteral(c, literal, Find(literal, <<"=">>), <<"=">>)
    ELSE Throw("invalid_argument", "Cannot parse literal")

RECURSIVE ParseLiterals(_, _, _, _)
ParseLiterals(c, pieces, i, literals) ==
    IF i > Len(pieces)
    THEN [thrown |-> "none", what |-> "", literals |-> literals]
    ELSE LET lit == ParseLiteral(c, pieces[i])
         IN  IF lit.thrown # "none" THEN Throw(lit.thrown, lit.what)
             ELSE ParseLiterals(c, pieces, i + 1, Append(literals, lit.literal))

parse_clause(text, c) ==
    ParseLiterals(c, SplitBySpace(text, 1, <<>>, <<>>), 1, <<>>)

RECURSIVE ParseClauses(_, _, _, _)
ParseClauses(c, clauses, i, q) ==
    IF i > Len(clauses) THEN [thrown |-> "none", what |-> "", query |-> q]
    ELSE LET literals == parse_clause(clauses[i], c)
         IN  IF literals.thrown # "none"
             THEN Throw(literals.thrown, literals.what)
             ELSE ParseClauses(c, clauses, i + 1, Append(q, literals.literals))

parse_query(text, c) ==
    LET clauses == split_clauses(text)
    IN  IF clauses.thrown # "none" THEN Throw(clauses.thrown, clauses.what)
        ELSE LET q == ParseClauses(c, clauses.clauses, 1, <<>>)
             IN  IF q.thrown # "none" THEN q
                 ELSE IF q.query = <<>>
                 THEN Throw("invalid_argument", "Error: Empty Query")
                 ELSE q

\* ============================================================ handle_input
MaxChunks == 5      \* pieces a query text is put together from

\* The pieces of the query texts typed in: brackets, a space, an attribute
\* name, the operators, a quoted value of the corpus, a quoted value that
\* is not in the corpus, and a bare letter.
InputChunks ==
    { <<"[">>, <<"]">>, <<" ">>, <<"c", "5">>, <<"=">>, <<"!", "=">>,
      <<"\"", "a", "\"">>, <<"\"", "z", "\"">>, <<"a">> }

RECURSIVE Flatten(_)
Flatten(chunks) ==
    IF chunks = <<>> THEN <<>>
    ELSE Flatten(SubSeq(chunks, 1, Len(chunks) - 1)) \o chunks[Len(chunks)]

\* main() hands handle_input every line that is not empty.
InputTexts ==
    { Flatten(chunks) :
        chunks \in UNION { [1..n -> InputChunks] : n \in 1..MaxChunks } }

\* A handler for class handler catches an exception of class thrown:
\* std::invalid_argument is derived from std::logic_error.
Catches(handler, thrown) ==
    \/ thrown = handler
    \/ handler = "logic_error" /\ thrown = "invalid_argument"

\* display_matches writes to std::cout.  It reads corpus.sentences at
\* match.sentence for each match shown: outside the vector the read is
\* undefined, and the call may not return.
display_matches(c, ms) ==
    LET shown == SubSeq(ms, 1, Min(Len(ms), 10))
        inside == \A i \in DOMAIN shown :
                     shown[i].sentence \in 0..(Len(c.sentences) - 1)
    IN  { [stdout |-> <<"Found matches">>, returned |-> r] :
            r \in IF inside THEN {TRUE} ELSE BOOLEAN }

\* The outcomes of handle_input: what parse_query threw, what went to
\* std::cout and to std::cerr, and whether the call returned.
handle_input(c, query_string) ==
    LET q == parse_query(query_string, c)
    IN  IF q.thrown # "none"
        THEN IF Catches("logic_error", q.thrown)
             THEN {[thrown |-> q.thrown, matches |-> <<>>,
                    stdout |-> <<"No matches found.">>, stderr |-> <<>>,
                    returned |-> TRUE]}
             ELSE IF Catches("invalid_argument", q.thrown)
             THEN {[thrown |-> q.thrown, matches |-> <<>>,
                    stdout |-> <<>>, stderr |-> <<"Error: " \o q.what>>,
                    returned |-> TRUE]}
             ELSE {[thrown |-> q.thrown, matches |-> <<>>,
                    stdout |-> <<>>, stderr |-> <<>>, returned |-> FALSE]}
        ELSE UNION {
               LET ms == match2(c, q.query, out.set)
               IN  IF ms = <<>>
                   THEN {[thrown |-> "none", matches |-> ms,
                          stdout |-> <<>>, stderr |-> <<>>, returned |-> TRUE]}
                   ELSE { [thrown |-> "none", matches |-> ms,
                           stdout |-> d.stdout, stderr |-> <<>>,
                           returned |-> d.returned] :
                          d \in display_matches(c, ms) }
               : out \in match_set_query(c, q.query) }

\* The corpus main() loaded from a file of one token row, and a line typed
\* at the prompt.
InitInput ==
    /\ pc = "prompt"
    /\ corpus = build_indices(LoadRows(<< <<"a", "b", "a", "b">> >>))
    /\ in_sentence = FALSE
    /\ row = "none"
    /\ NoQuery
    /\ args \in InputTexts
    /\ result = <<>>

HandleInput ==
    /\ pc = "prompt"
    /\ result' \in handle_input(corpus, args)
    /\ pc' = "handled"
    /\ UNCHANGED <<loadVars, evalVars, args>>

NextInput == HandleInput

SpecInput == InitInput /\ [][NextInput]_vars

\* C14: a query text with a parse error is reported as an error message on
\* the diagnostic stream, not in the way a lookup error (a value that is
\* not in the dictionary) is reported, and in both cases handle_input
\* returns.
C14_ParseErrorOnDiagnosticStream ==
    pc = "handled" =>
        /\ result.thrown = "invalid_argument" =>
              /\ result.stderr # <<>>
              /\ \A other \in InputTexts :
                    \A lookup \in handle_input(corpus, other) :
                        lookup.thrown = "logic_error" =>
                            <<result.stdout, result.stderr>>
                                # <<lookup.stdout, lookup.stderr>>
        /\ result.thrown \in {"invalid_argument", "logic_error"} =>
              result.returned

\* ===================================== intersection(MatchSet, MatchSet)
\* Two of the MatchSets the evaluator builds over a corpus of PlanTokens
\* tokens.
InitTable ==
    /\ pc = "operands"
    /\ args \in [A : PlanSets, B : PlanSets]
    /\ result = <<>>
    /\ NoCorpus
    /\ NoQuery

IntersectMatchSets ==
    /\ pc = "operands"
    /\ result' = intersection_MatchSet(args.A, args.B)
    /\ pc' = "intersected"
    /\ UNCHANGED <<loadVars, evalVars, args>>

NextTable == IntersectMatchSets

SpecTable == InitTable /\ [][NextTable]_vars

\* C15: for operands with under-sets a, b and complement bits ca, cb the
\* result of the MatchSet intersection is (a \cap b, 0) when ca = cb = 0,
\* (a \ b, 0) when ca = 0 and cb = 1, (b \ a, 0) when ca = 1 and cb = 0,
\* and (a \cap b, 1) when ca = cb = 1.
C15_ComplementTable ==
    pc = "intersected" =>
        LET a == Positions(args.A.set)
            b == Positions(args.B.set)
            ca == args.A.complement
            cb == args.B.complement
        IN  /\ result.complement = (ca /\ cb)
            /\ Positions(result.set) =
                  IF ca = cb THEN a \cap b
                  ELSE IF cb THEN a \ b
                  ELSE b \ a

\* ====================================== operations with a DenseSet operand
MaxPos == 3         \* largest position of a DenseSet or sorted-set operand

\* The DenseSets [first, last] with a position in them.
DenseSets ==
    { d \in { DenseSet(f, l) : f \in 0..MaxPos, l \in 0..MaxPos } :
        d.first <= d.last }

\* Two DenseSets, and a sorted vector with the shift it has as an IndexSet.
InitDense ==
    /\ pc = "dense operands"
    /\ args \in [A : DenseSets,
                 B : DenseSets,
                 X : { AscendingSeq(Y) : Y \in SUBSET (0..MaxPos) },
                 shift : 0..MaxShift]
    /\ result = <<>>
    /\ NoCorpus
    /\ NoQuery

\* difference(DenseSet, DenseSet)
DifferenceDense ==
    /\ pc = "dense operands"
    /\ result' = [op |-> "difference",
                  out |-> difference_Dense_Dense(args.A, args.B)]
    /\ pc' = "dense applied"
    /\ UNCHANGED <<loadVars, evalVars, args>>

\* The intersections of a DenseSet with an ExplicitSet and with an
\* IndexSet, in both orders of the operands.
IntersectDenseSorted ==
    /\ pc = "dense operands"
    /\ result' =
          [op |-> "intersection",
           dense_explicit |->
               intersection_Dense_Explicit(args.A, ExplicitSet(args.X)),
           explicit_dense |->
               intersection_Explicit_Dense(ExplicitSet(args.X), args.A),
           dense_index |->
               intersection_Dense_Index(args.A, IndexSet(args.X, args.shift)),
           index_dense |->
               intersection_Index_Dense(IndexSet(args.X, args.shift), args.A)]
    /\ pc' = "dense applied"
    /\ UNCHANGED <<loadVars, evalVars, args>>

NextDense ==
    \/ DifferenceDense
    \/ IntersectDenseSorted

SpecDense == InitDense /\ [][NextDense]_vars

\* A set of integers with no gap: a single interval, the empty one included.
IsInterval(positions) ==
    \A x \in positions : \A y \in positions :
        \A z \in x..y : z \in positions

\* C16: for DenseSets A and B, difference(A, B) denotes exactly A minus B
\* whenever that set is a single interval: A when they are disjoint,
\* (A.first, B.first - 1) when B covers A.last, (B.last + 1, A.last) when B
\* covers A.first, the empty interval when B covers all of A.
C16_DenseDifference ==
    (pc = "dense applied" /\ result.op = "difference") =>
        LET minus == Positions(args.A) \ Positions(args.B)
        IN  IsInterval(minus) => Positions(result.out) = minus

\* The elements of the sequence that are in the DenseSet, in their order.
Within(elems, D) == SelectSeq(elems, LAMBDA e : D.first <= e /\ e <= D.last)

\* C17: for every DenseSet D = [first, last] and every sorted set X,
\* intersection(D, X) and intersection(X, D) return exactly the elements of
\* X, in X's shifted coordinates, that are in [first, last], also when
\* first > 0.
C17_DenseIntersection ==
    (pc = "dense applied" /\ result.op = "intersection") =>
        LET shifted == [i \in 1..Len(args.X) |-> args.X[i] - args.shift]
        IN  /\ result.dense_explicit = ExplicitSet(Within(args.X, args.A))
            /\ result.explicit_dense = ExplicitSet(Within(args.X, args.A))
            /\ result.dense_index = ExplicitSet(Within(shifted, args.A))
            /\ result.index_dense = ExplicitSet(Within(shifted, args.A))

\* ===================================================== the evaluator match
compare_literal_token(token, literal) ==
    IF literal.is_equality
    THEN token[literal.attribute] = literal.value
    ELSE token[literal.attribute] # literal.value

compare_token_clause(token, clause) ==
    IF clause = <<>> THEN TRUE
    ELSE LET matching_literals ==
                 Cardinality({ k \in DOMAIN clause :
                                 compare_literal_token(token, clause[k]) })
         IN  matching_literals = Len(clause)

\* The loop over the clauses j for the start position i of a sentence that
\* ends before position end.
AllClausesMatch(c, q, i, end) ==
    \A j \in 0..(Len(q) - 1) :
        ~(i + j >= end \/ ~compare_token_clause(c.tokens[i + j + 1], q[j + 1]))

\* The loops of match over the sentences from sentence_index on and over
\* the positions of each sentence.
RECURSIVE MatchFrom(_, _, _)
MatchFrom(c, q, sentence_index) ==
    IF sentence_index >= Len(c.sentences) THEN <<>>
    ELSE LET start == c.sentences[sentence_index + 1]
             end == IF sentence_index + 1 < Len(c.sentences)
                    THEN c.sentences[sentence_index + 2]
                    ELSE Len(c.tokens)
             positions == [k \in 1..(end - start) |-> start + k - 1]
             found == SelectSeq(positions,
                                LAMBDA i : AllClausesMatch(c, q, i, end))
         IN  [k \in 1..Len(found) |-> Match(sentence_index, found[k], Len(q))]
             \o MatchFrom(c, q, sentence_index + 1)

match(c, q) == MatchFrom(c, q, 0)

\* C19: match2 and the token-scanning evaluator match return the same list
\* of match records (sentence index, start and length, in the same order)
\* for every corpus and every query with at least one clause.
C19_Match2EqualsMatch ==
    (Done /\ query # <<>>) => matches = match(corpus, query)
====
